---------------------------- MODULE Spec2Model ----------------------------
(***************************************************************************)
(* A model of adb's Linux host USB transport (adb/usb_linux.cpp):          *)
(*   - the descriptor parser inside find_usb_device        (SpecParse)     *)
(*   - the handle registry and the device poll thread      (SpecRegistry)  *)
(*   - the bulk transfer engine: usb_read / usb_write /                    *)
(*     usb_bulk_read / usb_bulk_write / usb_kick on one handle (Spec)      *)
(* All three specifications share one set of variables; each leaves the    *)
(* variables of the other two untouched.                                   *)
(***************************************************************************)
EXTENDS Integers, Sequences, FiniteSets, TLC

VARIABLES
    \* ---- descriptor parser (find_usb_device, lines 135-291) ----
    devdesc,      \* the bytes of devdesc[] (array content, also beyond desclength)
    fill,         \* the value of every array byte after Len(devdesc)
    desclength,   \* what unix_read returned
    bufptr,       \* the parse cursor, as an index into devdesc
    ppc,          \* where the parser is: "read", "loop", "closed"
    callback,     \* the arguments register_device_callback was invoked with, or NoCall
    ep1, ep2,     \* the endpoint records after the last matched interface (indexes)
    maxread,      \* the highest index of devdesc read so far (-1: none)
    iters         \* iterations of the descriptor loop executed so far

pvars == <<devdesc, fill, desclength, bufptr, ppc, callback, ep1, ep2, maxread, iters>>

VARIABLES
    \* ---- handle registry and device poll thread ----
    handles,              \* the usb_handle objects, by slot; a free slot holds FreeSlot
    g_usb_handles,        \* the list of registered handles (slots), in insertion order
    g_usb_handles_mutex,  \* who holds the registry lock across steps: "none" or "scanner"
    spc,                  \* where the device poll thread is
    cur,                  \* its locals: dev_name and the usb_handle being built
    kd_idx,               \* kick_disconnected_devices' position in g_usb_handles
    present,              \* device nodes that exist under /dev/bus/usb
    visited,              \* paths readdir has returned in the current walk
    mustlist              \* paths present since the walk began and not yet returned

rvars == <<handles, g_usb_handles, g_usb_handles_mutex, spc, cur, kd_idx,
           present, visited, mustlist>>

VARIABLES
    \* ---- the kernel's usbfs state of the device the transfer engine drives ----
    pending,      \* submitted transfers not yet completed: <<[slot, len, id]>>
    completed,    \* completed transfers not yet reaped, oldest first
    sig,          \* threads with a SIGALRM sent by usb_kick and not yet delivered
    cvwake,       \* threads waiting on usb_handle::cv that a notify_all has woken
    devgone       \* the device has been unplugged under the open handle

kvars == <<pending, completed, sig, cvwake, devgone>>

VARIABLES
    \* ---- the threads that call usb_read and usb_write ----
    th            \* per thread: its position and the locals of the call it is in

tvars == <<th>>

vars == <<pvars, rvars, kvars, tvars>>

(***************************************************************************)
(* Bit operations on naturals.                                             *)
(***************************************************************************)
RECURSIVE BitAnd(_, _)
BitAnd(a, b) ==
    IF a = 0 \/ b = 0 THEN 0
    ELSE (IF a % 2 = 1 /\ b % 2 = 1 THEN 1 ELSE 0) + 2 * BitAnd(a \div 2, b \div 2)

Max(a, b) == IF a >= b THEN a ELSE b

SetMax(S) == CHOOSE x \in S : \A y \in S : y <= x

(***************************************************************************)
(* Constants of <linux/usb/ch9.h> as the parser uses them.                 *)
(***************************************************************************)
USB_DT_DEVICE == 1
USB_DT_CONFIG == 2
USB_DT_INTERFACE == 4
USB_DT_ENDPOINT == 5
USB_DT_SS_ENDPOINT_COMP == 48
USB_DT_DEVICE_SIZE == 18
USB_DT_CONFIG_SIZE == 9
USB_DT_INTERFACE_SIZE == 9
USB_DT_ENDPOINT_SIZE == 7
USB_DT_SS_EP_COMP_SIZE == 6
USB_ENDPOINT_XFER_BULK == 2
USB_ENDPOINT_DIR_MASK == 128
HalfModulus == 65536

NoCall == [called |-> FALSE]

(***************************************************************************)
(* Descriptor buffers the parser is run on: a device header, a config      *)
(* header and up to MaxRecords records from a small library, the read      *)
(* ending anywhere in the array.                                           *)
(***************************************************************************)
MaxRecords == 3

Zeros(n) == [i \in 1..n |-> 0]

DeviceHeader(len, type) ==
    <<len, type>> \o Zeros(6) \o <<209, 24, 1, 78>> \o Zeros(4) \o <<3, 1>>

ConfigHeader(len, type) == <<len, type>> \o Zeros(7)

InterfaceRecord(num, neps, class, subclass, proto) ==
    <<USB_DT_INTERFACE_SIZE, USB_DT_INTERFACE, num, 0, neps, class, subclass, proto, 0>>

EndpointRecord(addr, attr, maxpkt) ==
    <<USB_DT_ENDPOINT_SIZE, USB_DT_ENDPOINT, addr, attr, maxpkt % 256, maxpkt \div 256, 0>>

CompanionRecord == <<USB_DT_SS_EP_COMP_SIZE, USB_DT_SS_ENDPOINT_COMP, 0, 0, 0, 0>>

Library ==
    { InterfaceRecord(1, 2, 255, 66, 1),     \* matches, protocol 1
      InterfaceRecord(2, 2, 255, 66, 0),     \* matches, protocol 0
      InterfaceRecord(0, 2, 8, 6, 80),       \* two endpoints, another class
      EndpointRecord(129, 2, 64),            \* bulk IN  0x81
      EndpointRecord(2, 2, 0),               \* bulk OUT 0x02, wMaxPacketSize 0
      EndpointRecord(131, 3, 8),             \* interrupt IN 0x83
      CompanionRecord,
      <<0, 36>>,                             \* a record declaring length 0
      <<5, 4, 0, 0, 2>> }                    \* an interface record of the wrong size

GoodHeader ==
    DeviceHeader(USB_DT_DEVICE_SIZE, USB_DT_DEVICE) \o ConfigHeader(USB_DT_CONFIG_SIZE, USB_DT_CONFIG)

BadHeaders ==
    { DeviceHeader(USB_DT_DEVICE_SIZE, USB_DT_CONFIG) \o ConfigHeader(USB_DT_CONFIG_SIZE, USB_DT_CONFIG),
      DeviceHeader(USB_DT_DEVICE_SIZE, USB_DT_DEVICE) \o ConfigHeader(USB_DT_CONFIG_SIZE + 1, USB_DT_CONFIG) }

RECURSIVE Concat(_)
Concat(ss) == IF ss = <<>> THEN <<>> ELSE Head(ss) \o Concat(Tail(ss))

RecordSeqs == UNION { [1..n -> Library] : n \in 0..MaxRecords }

\* SuperSpeed devices: a companion record after each endpoint record.
SuperSpeedBuffers ==
    { GoodHeader \o InterfaceRecord(1, 2, 255, 66, 1) \o e1 \o CompanionRecord \o e2 \o CompanionRecord :
        e1, e2 \in {EndpointRecord(129, 2, 64), EndpointRecord(2, 2, 0)} }

\* A 7-byte record that is not an endpoint record (a class-specific one).
ClassRecord == <<USB_DT_ENDPOINT_SIZE, 36, 0, 0, 0, 0, 0>>

\* What may stand in the two places after a matched interface.
AfterInterface == {EndpointRecord(129, 2, 64), EndpointRecord(131, 3, 8), ClassRecord}

\* Composite devices: a matching interface 1 and its two records, then a
\* matching interface 2 with two bulk endpoints.
LaterInterfaceBuffers ==
    { GoodHeader \o InterfaceRecord(1, 2, 255, 66, 1) \o x1 \o x2
                 \o InterfaceRecord(2, 2, 255, 66, 0)
                 \o EndpointRecord(129, 2, 64) \o EndpointRecord(2, 2, 0) :
        x1, x2 \in AfterInterface }

Buffers ==
    { GoodHeader \o Concat(rs) : rs \in RecordSeqs }
      \cup { h \o InterfaceRecord(1, 2, 255, 66, 1) : h \in BadHeaders }
      \cup SuperSpeedBuffers
      \cup LaterInterfaceBuffers

FillBytes == {0, 255}

(***************************************************************************)
(* Reading devdesc.  Index i is 0-based, as bufptr[i - bufptr] is in C.    *)
(***************************************************************************)
Byte(i) == IF i < Len(devdesc) THEN devdesc[i + 1] ELSE fill

Word(i) == Byte(i) + 256 * Byte(i + 1)

(***************************************************************************)
(* is_adb_interface(vid, pid, class, subclass, protocol) is defined in     *)
(* adb.cpp; the parser only calls it.  The signature used here is the      *)
(* vendor-specific class 0xff with subclass 0x42, any protocol.            *)
(***************************************************************************)
is_adb_interface(vid, pid, class, subclass, protocol) ==
    class = 255 /\ subclass = 66

\* Lines 222-226 and 229-233: is there a SuperSpeed companion record at bp?
CompanionAt(bp) ==
    /\ bp + 2 <= desclength
    /\ Byte(bp) = USB_DT_SS_EP_COMP_SIZE
    /\ Byte(bp + 1) = USB_DT_SS_ENDPOINT_COMP

\* The indexes the companion test at bp reads (&& is short-circuit).
CompanionReads(bp) ==
    IF bp + 2 <= desclength
    THEN IF Byte(bp) = USB_DT_SS_EP_COMP_SIZE THEN {bp, bp + 1} ELSE {bp}
    ELSE {}

AssignEndpointsFirstIsIn(a1, a2) == [ep_in |-> a1, ep_out |-> a2]

\* Lines 256-263: which endpoint is in and which is out.
AssignEndpoints(a1, a2) ==
    IF BitAnd(a1, USB_ENDPOINT_DIR_MASK) # 0
    THEN [ep_in |-> a1, ep_out |-> a2]
    ELSE [ep_in |-> a2, ep_out |-> a1]

(***************************************************************************)
(* A 32-bit unsigned is kept as its two 16-bit halves, so that the wrap of *)
(* 0 - 1 to 0xffffffff is computed and not lost.                           *)
(***************************************************************************)
U32(hi, lo) == [hi |-> hi, lo |-> lo]

U32Sub(a, n) ==
    LET d == a.lo - n
    IN  U32((a.hi + (IF d < 0 THEN -1 ELSE 0)) % HalfModulus, d % HalfModulus)

U32And(a, b) == U32(BitAnd(a.hi, b.hi), BitAnd(a.lo, b.lo))

U32Zero == U32(0, 0)

\* An int that is not negative, converted to unsigned.
ToU32(n) == U32(n \div HalfModulus, n % HalfModulus)

\* Lines 250-253: the zero-packet mask, an unsigned.
ZeroMask(protocol, wMaxPacketSize) ==
    IF protocol = 1 THEN U32Sub(ToU32(wMaxPacketSize), 1) ELSE U32Zero

(***************************************************************************)
(* One iteration of the descriptor loop (lines 189-289) with the cursor at *)
(* bp < desclength: the new cursor, how the iteration ends ("next": the    *)
(* loop condition is tested again, "break": the loop is left), the         *)
(* indexes of devdesc it read, and the callback's arguments if it was      *)
(* invoked.                                                                *)
(***************************************************************************)
Outcome(bp, how, reads, cb, e1, e2) ==
    [bufptr |-> bp, how |-> how, reads |-> reads, cb |-> cb, ep1 |-> e1, ep2 |-> e2]

MatchedInterface(ifc, bp) ==
    LET e1   == bp
        bp1  == bp + USB_DT_ENDPOINT_SIZE
        bp2  == IF CompanionAt(bp1) THEN bp1 + USB_DT_SS_EP_COMP_SIZE ELSE bp1
        e2   == bp2
        bp3  == bp2 + USB_DT_ENDPOINT_SIZE
        bp4  == IF CompanionAt(bp3) THEN bp3 + USB_DT_SS_EP_COMP_SIZE ELSE bp3
        r0   == CompanionReads(bp1) \cup CompanionReads(bp3)
        \* line 235-239, || is short-circuit
        r1   == IF bp4 > desclength THEN {}
                ELSE IF Byte(e1) # USB_DT_ENDPOINT_SIZE THEN {e1}
                ELSE IF Byte(e1 + 1) # USB_DT_ENDPOINT THEN {e1, e1 + 1}
                ELSE IF Byte(e2) # USB_DT_ENDPOINT_SIZE THEN {e1, e1 + 1, e2}
                ELSE {e1, e1 + 1, e2, e2 + 1}
        notfound == \/ bp4 > desclength
                    \/ Byte(e1) # USB_DT_ENDPOINT_SIZE
                    \/ Byte(e1 + 1) # USB_DT_ENDPOINT
                    \/ Byte(e2) # USB_DT_ENDPOINT_SIZE
                    \/ Byte(e2 + 1) # USB_DT_ENDPOINT
        \* line 245-246
        r2   == IF Byte(e1 + 3) # USB_ENDPOINT_XFER_BULK THEN {e1 + 3} ELSE {e1 + 3, e2 + 3}
        notbulk == Byte(e1 + 3) # USB_ENDPOINT_XFER_BULK \/ Byte(e2 + 3) # USB_ENDPOINT_XFER_BULK
        proto == Byte(ifc + 7)
        r3   == {ifc + 7} \cup (IF proto = 1 THEN {e1 + 4, e1 + 5} ELSE {})
        eps  == AssignEndpoints(Byte(e1 + 2), Byte(e2 + 2))
        r4   == {e1 + 2, e2 + 2, ifc + 2, 16}
    IN  IF notfound THEN Outcome(bp4, "break", r0 \cup r1, NoCall, e1, e2)
        ELSE IF notbulk THEN Outcome(bp4, "next", r0 \cup r1 \cup r2, NoCall, e1, e2)
        ELSE Outcome(bp4, "break", r0 \cup r1 \cup r2 \cup r3 \cup r4,
                     [called |-> TRUE, ep_in |-> eps.ep_in, ep_out |-> eps.ep_out,
                      interface |-> Byte(ifc + 2), serial_index |-> Byte(16),
                      zero_mask |-> ZeroMask(proto, Word(e1 + 4))],
                     e1, e2)

Iteration(bp) ==
    LET length == Byte(bp)
        type   == Byte(bp + 1)
        r0     == {bp, bp + 1}
    IN  IF type = USB_DT_INTERFACE
        THEN IF length # USB_DT_INTERFACE_SIZE
             THEN Outcome(bp + length, "break", r0, NoCall, ep1, ep2)
             ELSE IF Byte(bp + 4) # 2
             THEN Outcome(bp + length, "next", r0 \cup {bp + 4}, NoCall, ep1, ep2)
             ELSE IF ~is_adb_interface(Word(8), Word(10), Byte(bp + 5), Byte(bp + 6), Byte(bp + 7))
             THEN Outcome(bp + length, "next", r0 \cup {bp + 4, bp + 5, bp + 6, bp + 7}, NoCall, ep1, ep2)
             ELSE LET m == MatchedInterface(bp, bp + length)
                  IN  [m EXCEPT !.reads = @ \cup r0 \cup {bp + 4, bp + 5, bp + 6, bp + 7}]
        ELSE Outcome(bp + length, "next", r0, NoCall, ep1, ep2)

\* The parser's variables while another specification runs.
ParserIdle ==
    /\ devdesc = <<>>
    /\ fill = 0
    /\ desclength = 0
    /\ bufptr = 0
    /\ ppc = "closed"
    /\ callback = NoCall
    /\ ep1 = 0
    /\ ep2 = 0
    /\ maxread = -1
    /\ iters = 0

KernelIdle ==
    /\ pending = <<>>
    /\ completed = <<>>
    /\ sig = {}
    /\ cvwake = {}
    /\ devgone = FALSE

(***************************************************************************)
(* The parser as a state machine: the header checks, then one step per     *)
(* iteration of the descriptor loop.                                       *)
(***************************************************************************)
InitParse ==
    /\ devdesc \in Buffers
    /\ fill \in FillBytes
    /\ desclength \in 0..Len(devdesc)
    /\ bufptr = 0
    /\ ppc = "read"
    /\ callback = NoCall
    /\ ep1 = 0
    /\ ep2 = 0
    /\ maxread = -1
    /\ iters = 0
    /\ handles = <<>>
    /\ g_usb_handles = <<>>
    /\ g_usb_handles_mutex = "none"
    /\ spc = "idle"
    /\ cur = <<>>
    /\ kd_idx = 1
    /\ present = {}
    /\ visited = {}
    /\ mustlist = {}
    /\ KernelIdle
    /\ th = <<>>

\* Lines 157-186: the length test and the device and config headers.
ParseHeaders ==
    /\ ppc = "read"
    /\ iters' = iters
    /\ callback' = callback
    /\ UNCHANGED <<devdesc, fill, desclength, ep1, ep2>>
    /\ UNCHANGED <<rvars, kvars, tvars>>
    /\ IF desclength < USB_DT_DEVICE_SIZE + USB_DT_CONFIG_SIZE
       THEN ppc' = "closed" /\ bufptr' = bufptr /\ maxread' = maxread
       ELSE IF Byte(0) # USB_DT_DEVICE_SIZE \/ Byte(1) # USB_DT_DEVICE
       THEN /\ ppc' = "closed"
            /\ bufptr' = USB_DT_DEVICE_SIZE
            /\ maxread' = IF Byte(0) # USB_DT_DEVICE_SIZE THEN 0 ELSE 1
       ELSE IF Byte(18) # USB_DT_CONFIG_SIZE \/ Byte(19) # USB_DT_CONFIG
       THEN /\ ppc' = "closed"
            /\ bufptr' = USB_DT_DEVICE_SIZE + USB_DT_CONFIG_SIZE
            /\ maxread' = IF Byte(18) # USB_DT_CONFIG_SIZE THEN 18 ELSE 19
       ELSE /\ ppc' = "loop"
            /\ bufptr' = USB_DT_DEVICE_SIZE + USB_DT_CONFIG_SIZE
            /\ maxread' = 19

\* Line 189 with bufptr >= bufend: the loop ends, the descriptor node is closed.
ParseEnd ==
    /\ ppc = "loop"
    /\ ~(bufptr < desclength)
    /\ ppc' = "closed"
    /\ UNCHANGED <<devdesc, fill, desclength, bufptr, callback, ep1, ep2, maxread, iters>>
    /\ UNCHANGED <<rvars, kvars, tvars>>

MaxIters == 6

\* Lines 189-289: one iteration of the loop.
ParseRecord ==
    /\ ppc = "loop"
    /\ bufptr < desclength
    /\ LET o == Iteration(bufptr)
       IN  /\ bufptr' = o.bufptr
           /\ ppc' = IF o.how = "break" THEN "closed" ELSE "loop"
           /\ callback' = o.cb
           /\ ep1' = o.ep1
           /\ ep2' = o.ep2
           /\ maxread' = Max(maxread, SetMax(o.reads))
    /\ iters' = IF iters < MaxIters THEN iters + 1 ELSE iters
    /\ UNCHANGED <<devdesc, fill, desclength>>
    /\ UNCHANGED <<rvars, kvars, tvars>>

NextParse == ParseHeaders \/ ParseRecord \/ ParseEnd

SpecParse == InitParse /\ [][NextParse]_vars

(***************************************************************************)
(*                     The usb_handle and the kernel                       *)
(***************************************************************************)
EINTR == 4
ENOENT == 2
ENODEV == 19
EINVAL == 22
ETIMEDOUT == 110

Paths == {"/dev/bus/usb/001/001", "/dev/bus/usb/001/002"}

MaxHandles == 3

HandleIds == 1..MaxHandles

Urb(status, actual_length, buffer_length) ==
    [status |-> status, actual_length |-> actual_length, buffer_length |-> buffer_length]

\* A slot that holds no usb_handle.
FreeSlot ==
    [live |-> FALSE, path |-> "", fd |-> "none", zero_mask |-> U32Zero, writeable |-> TRUE,
     claimed |-> FALSE, urb_in |-> Urb(0, 0, 0), urb_out |-> Urb(0, 0, 0),
     urb_in_busy |-> FALSE, urb_out_busy |-> FALSE, dead |-> FALSE, mark |-> FALSE,
     reaper_thread |-> "none", attached |-> 0, unregistered |-> 0, mutex |-> "none"]

NewHandleUnmarked(dev_name, zero_mask) ==
    [FreeSlot EXCEPT !.live = TRUE, !.path = dev_name, !.zero_mask = zero_mask,
                     !.writeable = TRUE]

\* Lines 54-82 and 522-529: a new usb_handle as register_device fills it in.
\* attached and unregistered count the calls of register_usb_transport and
\* unregister_usb_transport made with this handle.
NewHandle(dev_name, zero_mask) ==
    [FreeSlot EXCEPT !.live = TRUE, !.path = dev_name, !.zero_mask = zero_mask,
                     !.writeable = TRUE, !.mark = TRUE]

Registered == { g_usb_handles[i] : i \in 1..Len(g_usb_handles) }

PathMatchesNever(h, dev_name) == FALSE

PathMatchesLiveOnly(h, dev_name) == handles[h].path = dev_name /\ ~handles[h].dead

\* Lines 90 and 515: usb->path == dev_name.
PathMatches(h, dev_name) == handles[h].path = dev_name

RECURSIVE RemoveFirstOf(_, _)
RemoveFirstOf(q, slot) ==
    IF q = <<>> THEN <<>>
    ELSE IF Head(q).slot = slot THEN Tail(q)
    ELSE <<Head(q)>> \o RemoveFirstOf(Tail(q), slot)

FirstOf(q, slot) ==
    q[CHOOSE i \in 1..Len(q) : q[i].slot = slot /\ \A j \in 1..(i - 1) : q[j].slot # slot]

\* ioctl(fd, USBDEVFS_DISCARDURB, urb): the oldest pending transfer submitted
\* with that urb is unlinked and completes with -ENOENT; none pending: no effect.
Discard(k, slot) ==
    IF \E i \in 1..Len(k.pending) : k.pending[i].slot = slot
    THEN [pending   |-> RemoveFirstOf(k.pending, slot),
          completed |-> Append(k.completed,
                               [slot |-> slot, id |-> FirstOf(k.pending, slot).id,
                                status |-> -ENOENT, actual |-> 0])]
    ELSE k

MaxCalls == 2

Sat(n) == IF n < MaxCalls THEN n + 1 ELSE n

KickedHandleKeepsDead(h) ==
    IF h.writeable
    THEN [h EXCEPT !.dead = TRUE, !.urb_in.status = -ENODEV, !.urb_out.status = -ENODEV,
                   !.urb_in_busy = FALSE, !.urb_out_busy = FALSE]
    ELSE [h EXCEPT !.dead = TRUE, !.unregistered = Sat(@)]

KickedHandleLeavesBusy(h) ==
    IF h.dead THEN h
    ELSE IF h.writeable
    THEN [h EXCEPT !.dead = TRUE, !.urb_in.status = -ENODEV, !.urb_out.status = -ENODEV]
    ELSE [h EXCEPT !.dead = TRUE, !.unregistered = Sat(@)]

KickedHandleClosesFd(h) ==
    IF h.dead THEN h
    ELSE IF h.writeable
    THEN [h EXCEPT !.dead = TRUE, !.fd = "none", !.urb_in.status = -ENODEV,
                   !.urb_out.status = -ENODEV, !.urb_in_busy = FALSE, !.urb_out_busy = FALSE]
    ELSE [h EXCEPT !.dead = TRUE, !.fd = "none", !.unregistered = Sat(@)]

\* Lines 457-488, the usb_handle after usb_kick.
KickedHandle(h) ==
    IF h.dead THEN h
    ELSE IF h.writeable
    THEN [h EXCEPT !.dead = TRUE, !.urb_in.status = -ENODEV, !.urb_out.status = -ENODEV,
                   !.urb_in_busy = FALSE, !.urb_out_busy = FALSE]
    ELSE [h EXCEPT !.dead = TRUE, !.unregistered = Sat(@)]

\* The threads blocked in cv.wait_until (line 320).
Waiting == { t \in DOMAIN th : th[t].pc = "bw_wait" }

KickCallsDiscardsFirst(h) ==
    IF h.dead THEN <<>>
    ELSE IF ~h.writeable THEN <<"unregister_usb_transport">>
    ELSE <<"discard_in", "discard_out">>
         \o (IF h.reaper_thread # "none" THEN <<"pthread_kill">> ELSE <<>>)
         \o <<"notify_all">>

KickCallsNoOutDiscard(h) ==
    IF h.dead THEN <<>>
    ELSE IF ~h.writeable THEN <<"unregister_usb_transport">>
    ELSE (IF h.reaper_thread # "none" THEN <<"pthread_kill">> ELSE <<>>)
         \o <<"discard_in", "notify_all">>

\* Lines 460-486: the calls usb_kick makes, in program order.
KickCalls(h) ==
    IF h.dead THEN <<>>
    ELSE IF ~h.writeable THEN <<"unregister_usb_transport">>
    ELSE (IF h.reaper_thread # "none" THEN <<"pthread_kill">> ELSE <<>>)
         \o <<"discard_in", "discard_out", "notify_all">>

\* What one of these calls does to the kernel's queues, the pending signals
\* and the condition variable.  A signal sent to a thread that is not at the
\* reap ioctl is handled at once and leaves no trace.
ApplyCall(k, c, h) ==
    CASE c = "pthread_kill" ->
           IF h.reaper_thread \in DOMAIN th /\ th[h.reaper_thread].pc = "br_reap"
           THEN [k EXCEPT !.sig = @ \cup {h.reaper_thread}]
           ELSE k
      [] c = "discard_in" ->
           [k EXCEPT !.pending = Discard(k, "in").pending,
                     !.completed = Discard(k, "in").completed]
      [] c = "discard_out" ->
           [k EXCEPT !.pending = Discard(k, "out").pending,
                     !.completed = Discard(k, "out").completed]
      [] c = "notify_all" -> [k EXCEPT !.cvwake = Waiting]
      [] OTHER -> k

RECURSIVE ApplyCalls(_, _, _)
ApplyCalls(k, cs, h) ==
    IF cs = <<>> THEN k ELSE ApplyCalls(ApplyCall(k, Head(cs), h), Tail(cs), h)

\* Lines 468-483, what usb_kick leaves in the kernel and on the condition
\* variable.
KickedKernel(h) ==
    ApplyCalls([pending |-> pending, completed |-> completed, sig |-> sig, cvwake |-> cvwake],
               KickCalls(h), h)

\* usb_kick(h), lines 457-488: one critical section on h->mutex.
usb_kick(h) ==
    /\ handles' = [handles EXCEPT ![h] = KickedHandle(@)]
    /\ pending' = KickedKernel(handles[h]).pending
    /\ completed' = KickedKernel(handles[h]).completed
    /\ sig' = KickedKernel(handles[h]).sig
    /\ cvwake' = KickedKernel(handles[h]).cvwake
    /\ UNCHANGED devgone

(***************************************************************************)
(*        The handle registry and device_poll_thread (lines 84-109,        *)
(*        126-155, 490-584)                                                *)
(***************************************************************************)
NoCur == [dev_name |-> "", zero_mask |-> U32Zero, usb |-> FreeSlot, done |-> 0]

\* The zero-packet masks the parser hands to the registration callback here.
CallbackMasks == {ZeroMask(1, 64), ZeroMask(0, 64)}

\* The registered handles whose path is dev_name, in list order.
Matching(dev_name) ==
    SelectSeq(g_usb_handles, LAMBDA h : PathMatches(h, dev_name))

\* A device node is not reused while a usb_handle holds it open (lines 505-508).
HeldOpen(p) ==
    \/ \E h \in HandleIds : handles[h].live /\ handles[h].path = p /\ handles[h].fd # "none"
    \/ cur.usb.live /\ cur.usb.path = p /\ cur.usb.fd # "none"

EnvPlug(p) ==
    /\ p \notin present
    /\ ~HeldOpen(p)
    /\ present' = present \cup {p}
    /\ UNCHANGED <<handles, g_usb_handles, g_usb_handles_mutex, spc, cur, kd_idx, visited, mustlist>>
    /\ UNCHANGED <<pvars, kvars, tvars>>

EnvUnplug(p) ==
    /\ p \in present
    /\ present' = present \ {p}
    /\ mustlist' = mustlist \ {p}
    /\ UNCHANGED <<handles, g_usb_handles, g_usb_handles_mutex, spc, cur, kd_idx, visited>>
    /\ UNCHANGED <<pvars, kvars, tvars>>

\* Lines 134-150: readdir returns the entry p and is_known_device(p) runs.
ScanReadDir(p) ==
    /\ spc = "walk"
    /\ p \in present \ visited
    /\ g_usb_handles_mutex = "none"
    /\ visited' = visited \cup {p}
    /\ mustlist' = mustlist \ {p}
    /\ IF Matching(p) # <<>>
       THEN /\ handles' = [handles EXCEPT ![Head(Matching(p))].mark = TRUE]
            /\ UNCHANGED <<spc, cur>>
       ELSE /\ spc' = "probe"
            /\ cur' = [NoCur EXCEPT !.dev_name = p]
            /\ UNCHANGED handles
    /\ UNCHANGED <<g_usb_handles, g_usb_handles_mutex, kd_idx, present>>
    /\ UNCHANGED <<pvars, kvars, tvars>>

\* Lines 152-291: the descriptor node is opened, read and parsed (SpecParse);
\* the parser either invokes the registration callback or does not.
ScanProbe(match, zm) ==
    /\ spc = "probe"
    /\ match => cur.dev_name \in present
    /\ IF match
       THEN spc' = "rd_check" /\ cur' = [cur EXCEPT !.zero_mask = zm]
       ELSE spc' = "walk" /\ cur' = NoCur
    /\ UNCHANGED <<handles, g_usb_handles, g_usb_handles_mutex, kd_idx, present, visited, mustlist>>
    /\ UNCHANGED <<pvars, kvars, tvars>>

\* Lines 512-529 of register_device: the lookup under the registry lock.
RdCheck ==
    /\ spc = "rd_check"
    /\ g_usb_handles_mutex = "none"
    /\ IF Matching(cur.dev_name) # <<>>
       THEN spc' = "walk" /\ cur' = NoCur
       ELSE spc' = "rd_open" /\ cur' = [cur EXCEPT !.usb = NewHandle(cur.dev_name, cur.zero_mask)]
    /\ UNCHANGED <<handles, g_usb_handles, g_usb_handles_mutex, kd_idx, present, visited, mustlist>>
    /\ UNCHANGED <<pvars, kvars, tvars>>

OpenAndClaimIgnoresClaim(usb, rw_ok, ro_ok, claim_ok) ==
    IF rw_ok THEN [ok |-> TRUE, usb |-> [usb EXCEPT !.fd = "rw", !.claimed = claim_ok]]
    ELSE IF ro_ok THEN [ok |-> TRUE, usb |-> [usb EXCEPT !.fd = "ro", !.writeable = FALSE]]
    ELSE [ok |-> FALSE, usb |-> usb]

\* Lines 531-550: open read-write, else read-only; claim the interface if writable.
OpenAndClaim(usb, rw_ok, ro_ok, claim_ok) ==
    IF rw_ok
    THEN IF claim_ok
         THEN [ok |-> TRUE, usb |-> [usb EXCEPT !.fd = "rw", !.claimed = TRUE]]
         ELSE [ok |-> FALSE, usb |-> [usb EXCEPT !.fd = "rw"]]
    ELSE IF ro_ok
    THEN [ok |-> TRUE, usb |-> [usb EXCEPT !.fd = "ro", !.writeable = FALSE]]
    ELSE [ok |-> FALSE, usb |-> usb]

RdOpen(rw_ok, ro_ok, claim_ok) ==
    /\ spc = "rd_open"
    /\ (rw_ok \/ ro_ok) => cur.dev_name \in present
    /\ LET r == OpenAndClaim(cur.usb, rw_ok, ro_ok, claim_ok)
       IN  IF r.ok
           THEN spc' = "rd_insert" /\ cur' = [cur EXCEPT !.usb = r.usb]
           ELSE spc' = "walk" /\ cur' = NoCur
    /\ UNCHANGED <<handles, g_usb_handles, g_usb_handles_mutex, kd_idx, present, visited, mustlist>>
    /\ UNCHANGED <<pvars, kvars, tvars>>

FreeSlots == { h \in HandleIds : ~handles[h].live }

\* Lines 565-570: the handle is appended to g_usb_handles.
RdInsert ==
    /\ spc = "rd_insert"
    /\ g_usb_handles_mutex = "none"
    /\ FreeSlots # {}
    /\ LET slot == CHOOSE h \in FreeSlots : \A g \in FreeSlots : h <= g
       IN  /\ handles' = [handles EXCEPT ![slot] = cur.usb]
           /\ g_usb_handles' = Append(g_usb_handles, slot)
           /\ cur' = [cur EXCEPT !.done = slot, !.usb = FreeSlot]
    /\ spc' = "rd_attach"
    /\ UNCHANGED <<g_usb_handles_mutex, kd_idx, present, visited, mustlist>>
    /\ UNCHANGED <<pvars, kvars, tvars>>

\* Line 571: register_usb_transport(done_usb, ...).
RdAttach ==
    /\ spc = "rd_attach"
    /\ handles' = [handles EXCEPT ![cur.done].attached = Sat(@)]
    /\ spc' = "walk"
    /\ cur' = NoCur
    /\ UNCHANGED <<g_usb_handles, g_usb_handles_mutex, kd_idx, present, visited, mustlist>>
    /\ UNCHANGED <<pvars, kvars, tvars>>

\* Lines 579-580 and 100: the walk is over (readdir returned null for every
\* directory) and kick_disconnected_devices takes the registry lock.
KdLock ==
    /\ spc = "walk"
    /\ mustlist = {}
    /\ g_usb_handles_mutex = "none"
    /\ g_usb_handles_mutex' = "scanner"
    /\ kd_idx' = 1
    /\ spc' = "kd"
    /\ UNCHANGED <<handles, g_usb_handles, cur, present, visited, mustlist>>
    /\ UNCHANGED <<pvars, kvars, tvars>>

KdSweepKeepsMark(h) ==
    /\ handles[h].mark
    /\ UNCHANGED handles
    /\ UNCHANGED kvars

\* Lines 105-107: a marked handle has its mark cleared.
KdSweepMarked(h) ==
    /\ handles[h].mark
    /\ handles' = [handles EXCEPT ![h].mark = FALSE]
    /\ UNCHANGED kvars

\* Lines 102-108: one iteration of kick_disconnected_devices' loop.
KdStep ==
    /\ spc = "kd"
    /\ kd_idx <= Len(g_usb_handles)
    /\ LET h == g_usb_handles[kd_idx]
       IN  \/ ~handles[h].mark /\ usb_kick(h)
           \/ KdSweepMarked(h)
    /\ kd_idx' = kd_idx + 1
    /\ UNCHANGED <<g_usb_handles, g_usb_handles_mutex, spc, cur, present, visited, mustlist>>
    /\ UNCHANGED <<pvars, tvars>>

\* Line 109: the loop is over and the registry lock is released; line 581: sleep(1).
KdUnlock ==
    /\ spc = "kd"
    /\ kd_idx > Len(g_usb_handles)
    /\ g_usb_handles_mutex' = "none"
    /\ spc' = "sleep"
    /\ UNCHANGED <<handles, g_usb_handles, cur, kd_idx, present, visited, mustlist>>
    /\ UNCHANGED <<pvars, kvars, tvars>>

\* Lines 577-579: the next cycle begins with opendir.
ScanSleep ==
    /\ spc = "sleep"
    /\ spc' = "walk"
    /\ visited' = {}
    /\ mustlist' = present
    /\ UNCHANGED <<handles, g_usb_handles, g_usb_handles_mutex, cur, kd_idx, present>>
    /\ UNCHANGED <<pvars, kvars, tvars>>

\* The transport layer calls usb_kick on a handle it was given.
ExtKick(h) ==
    /\ handles[h].live
    /\ handles[h].attached > 0
    /\ usb_kick(h)
    /\ UNCHANGED <<g_usb_handles, g_usb_handles_mutex, spc, cur, kd_idx, present, visited, mustlist>>
    /\ UNCHANGED <<pvars, tvars>>

\* Lines 490-499: usb_close(h), called by the transport layer.
usb_close(h) ==
    /\ handles[h].live
    /\ handles[h].attached > 0
    /\ g_usb_handles_mutex = "none"
    /\ g_usb_handles' = SelectSeq(g_usb_handles, LAMBDA x : x # h)
    /\ handles' = [handles EXCEPT ![h] = FreeSlot]
    /\ UNCHANGED <<g_usb_handles_mutex, spc, cur, kd_idx, present, visited, mustlist>>
    /\ UNCHANGED <<pvars, kvars, tvars>>

\* usb_init (lines 586-597) has started the poll thread; nothing is registered.
InitRegistry ==
    /\ handles = [h \in HandleIds |-> FreeSlot]
    /\ g_usb_handles = <<>>
    /\ g_usb_handles_mutex = "none"
    /\ spc = "walk"
    /\ cur = NoCur
    /\ kd_idx = 1
    /\ present \in SUBSET Paths
    /\ visited = {}
    /\ mustlist = present
    /\ ParserIdle
    /\ KernelIdle
    /\ th = <<>>

NextRegistry ==
    \/ \E p \in Paths : EnvPlug(p)
    \/ \E p \in Paths : EnvUnplug(p)
    \/ \E p \in Paths : ScanReadDir(p)
    \/ \E match \in BOOLEAN, zm \in CallbackMasks : ScanProbe(match, zm)
    \/ RdCheck
    \/ \E rw_ok, ro_ok, claim_ok \in BOOLEAN : RdOpen(rw_ok, ro_ok, claim_ok)
    \/ RdInsert
    \/ RdAttach
    \/ KdLock
    \/ KdStep
    \/ KdUnlock
    \/ ScanSleep
    \/ \E h \in HandleIds : ExtKick(h)
    \/ \E h \in HandleIds : usb_close(h)

SpecRegistry == InitRegistry /\ [][NextRegistry]_vars

(***************************************************************************)
(*   The transfer engine on one registered handle: usb_read, usb_write,    *)
(*   usb_bulk_read, usb_bulk_write (lines 296-455) and the kernel's        *)
(*   submit / reap / discard interface.  Each critical section on          *)
(*   usb_handle::mutex is one step; the reap ioctl and the condition wait  *)
(*   run with the mutex released.                                          *)
(***************************************************************************)
EPERM == 1
ENOMEM == 12
EPIPE == 32

H == 1

Readers == {"r1"}
Writers == {"w1"}
Threads == Readers \cup Writers

MaxLen == 2
MaxUrbs == 3
MaxOps == 1

Lengths == 0..MaxLen

\* The zero-packet masks a handle can carry: ZeroMask of protocol 0, and of
\* protocol 1 with wMaxPacketSize 2 and 3.
HandleMasks == {ZeroMask(0, 2), ZeroMask(1, 2), ZeroMask(1, 3)}

\* errno when a reader makes its first call: whatever an earlier call left.
\* usb_write and usb_bulk_write never read errno.
InitErrnos == {0, ETIMEDOUT}

\* The completion statuses the kernel reports.
UrbStatuses == {0, -ETIMEDOUT, -EPIPE}

IdleThread(e) ==
    [pc |-> "idle", op |-> "none", req |-> 0, len |-> 0, off |-> 0, xfer |-> 0, n |-> 0,
     errno |-> e, ret |-> 0, res |-> 0, out |-> "none", saved_errno |-> 0, zlp |-> FALSE,
     bulks |-> 0, pn |-> 0, got |-> 0, deadstart |-> FALSE, calls |-> 0]

\* What a call leaves behind when it returns v: its locals are gone.
Returned(r, v) ==
    [r EXCEPT !.pc = "done", !.ret = v, !.len = 0, !.off = 0, !.xfer = 0,
              !.res = 0, !.out = "none", !.saved_errno = 0, !.zlp = FALSE]

InitEngine ==
    /\ \E w \in BOOLEAN, zm \in HandleMasks :
          handles = [h \in HandleIds |->
                        IF h = H
                        THEN [NewHandle("/dev/bus/usb/001/001", zm) EXCEPT
                                 !.fd = IF w THEN "rw" ELSE "ro", !.writeable = w,
                                 !.claimed = w, !.mark = FALSE, !.attached = 1]
                        ELSE FreeSlot]
    /\ g_usb_handles = <<H>>
    /\ g_usb_handles_mutex = "none"
    /\ spc = "idle"
    /\ cur = NoCur
    /\ kd_idx = 1
    /\ present = {"/dev/bus/usb/001/001"}
    /\ visited = {}
    /\ mustlist = {}
    /\ ParserIdle
    /\ KernelIdle
    /\ \E e \in InitErrnos :
          th = [t \in Threads |-> IF t \in Readers THEN IdleThread(e) ELSE IdleThread(0)]

EngineFrame == UNCHANGED <<pvars, g_usb_handles, g_usb_handles_mutex, spc, cur, kd_idx,
                           present, visited, mustlist>>

\* ---- usb_read, lines 423-455 ----

\* Lines 429-430: while (len > 0) { int xfer = len; ... } return 0;
LoopTop(r) ==
    IF r.len > 0 THEN [r EXCEPT !.pc = "br_start", !.xfer = r.len]
    ELSE Returned(r, 0)

\* usb_read(h, data, len) up to its first usb_bulk_read.
UsbReadCall(t, len) ==
    /\ th[t].pc = "idle"
    /\ th[t].calls < MaxOps
    /\ th' = [th EXCEPT ![t] = LoopTop([IdleThread(th[t].errno) EXCEPT
                                           !.op = "read", !.req = len, !.len = len,
                                           !.deadstart = handles[H].dead,
                                           !.calls = th[t].calls + 1])]
    /\ UNCHANGED <<handles, kvars>>
    /\ EngineFrame

AfterBulkReadRetriesAll(r, fd_open) ==
    IF r.n # r.xfer
    THEN IF r.errno = ETIMEDOUT /\ fd_open
         THEN LoopTop(r)
         ELSE Returned(r, -1)
    ELSE LoopTop([r EXCEPT !.len = @ - r.xfer, !.off = @ + r.xfer])

AfterBulkReadIgnoresErrno(r, fd_open) ==
    IF r.n # r.xfer
    THEN IF fd_open
         THEN LoopTop([r EXCEPT !.off = IF r.n > 0 THEN @ + r.n ELSE @,
                                !.len = IF r.n > 0 THEN @ - r.n ELSE @])
         ELSE Returned(r, -1)
    ELSE LoopTop([r EXCEPT !.len = @ - r.xfer, !.off = @ + r.xfer])

\* Lines 435-450: what usb_read does with the n that usb_bulk_read returned,
\* up to the next usb_bulk_read or the return.
AfterBulkRead(r, fd_open) ==
    IF r.n # r.xfer
    THEN IF r.errno = ETIMEDOUT /\ fd_open
         THEN LoopTop([r EXCEPT !.off = IF r.n > 0 THEN @ + r.n ELSE @,
                                !.len = IF r.n > 0 THEN @ - r.n ELSE @])
         ELSE Returned(r, -1)
    ELSE LoopTop([r EXCEPT !.len = @ - r.xfer, !.off = @ + r.xfer])

\* The caller takes the result of usb_read or usb_write; errno stays.
UsbReturn(t) ==
    /\ th[t].pc = "done"
    /\ th' = [th EXCEPT ![t] = [IdleThread(th[t].errno) EXCEPT !.calls = th[t].calls]]
    /\ UNCHANGED <<handles, kvars>>
    /\ EngineFrame

\* ---- usb_write, lines 402-421 ----

\* usb_write(h, data, len) up to its usb_bulk_write, for a thread that makes
\* at most ops calls.
UsbWriteCallWithin(t, len, ops) ==
    /\ th[t].pc = "idle"
    /\ th[t].calls < ops
    /\ th' = [th EXCEPT ![t] = [IdleThread(th[t].errno) EXCEPT
                                   !.pc = "bw_start", !.op = "write", !.req = len, !.len = len,
                                   !.xfer = len, !.deadstart = handles[H].dead,
                                   !.calls = th[t].calls + 1]]
    /\ UNCHANGED <<handles, kvars>>
    /\ EngineFrame

UsbWriteCall(t, len) == UsbWriteCallWithin(t, len, MaxOps)

\* Line 413: h->zero_mask && !(len & h->zero_mask).
NeedsZeroPacket(zero_mask, len) ==
    zero_mask # U32Zero /\ U32And(ToU32(len), zero_mask) = U32Zero

\* Lines 407-420: what usb_write does with the n that usb_bulk_write
\* returned; pn keeps what the payload write returned.
AfterBulkWrite(r, zero_mask) ==
    IF r.zlp THEN Returned(r, r.n)
    ELSE IF r.n # r.len THEN Returned([r EXCEPT !.pn = r.n], -1)
    ELSE IF NeedsZeroPacket(zero_mask, r.len)
    THEN [r EXCEPT !.pn = r.n, !.pc = "bw_start", !.zlp = TRUE, !.xfer = 0]
    ELSE Returned([r EXCEPT !.pn = r.n], 0)

\* ---- the kernel side of USBDEVFS_SUBMITURB / USBDEVFS_REAPURB ----

\* errno of the submit ioctl at lines 313 and 352 (0: accepted): a descriptor
\* opened read-only may not submit, a disconnected device takes nothing, and
\* the kernel queues at most MaxUrbs transfers of this descriptor.
SubmitErrno ==
    IF handles[H].fd # "rw" THEN EPERM
    ELSE IF devgone THEN ENODEV
    ELSE IF Len(pending) + Len(completed) >= MaxUrbs THEN ENOMEM
    ELSE 0

BulkStartIgnoresDead(h, e) ==
    IF e # 0 THEN "fail" ELSE "submitted"

\* Lines 308-315 and 347-354: the dead check comes before the submit.
BulkStart(h, e) ==
    IF h.dead THEN "einval"
    ELSE IF e # 0 THEN "fail"
    ELSE "submitted"

\* A transfer of one endpoint completes, oldest first.
KernelComplete(slot, status, actual) ==
    /\ ~devgone
    /\ \E i \in 1..Len(pending) : pending[i].slot = slot
    /\ actual <= FirstOf(pending, slot).len
    /\ status # 0 => actual = 0
    /\ pending' = RemoveFirstOf(pending, slot)
    /\ completed' = Append(completed, [slot |-> slot, id |-> FirstOf(pending, slot).id,
                                       status |-> status, actual |-> actual])
    /\ UNCHANGED <<handles, sig, cvwake, devgone, th>>
    /\ EngineFrame

RECURSIVE Cancelled(_)
Cancelled(q) ==
    IF q = <<>> THEN <<>>
    ELSE <<[slot |-> Head(q).slot, id |-> Head(q).id, status |-> -ENOENT, actual |-> 0]>>
         \o Cancelled(Tail(q))

\* The device leaves the bus: the kernel cancels what is queued.
DeviceGone ==
    /\ ~devgone
    /\ devgone' = TRUE
    /\ pending' = <<>>
    /\ completed' = completed \o Cancelled(pending)
    /\ UNCHANGED <<handles, sig, cvwake, th>>
    /\ EngineFrame

\* A signal reaches a thread that is not inside the reap ioctl (at
\* "br_reap": between the unlock of line 361 and the ioctl of line 365): the
\* handler returns and nothing else happens.
SignalHandled(t) ==
    /\ t \in sig
    /\ sig' = sig \ {t}
    /\ UNCHANGED <<handles, pending, completed, cvwake, devgone, th>>
    /\ EngineFrame

\* A signal other than usb_kick's is sent to a thread that is at the reap
\* ioctl, which is made without TEMP_FAILURE_RETRY (line 363).
EnvSignal(t) ==
    /\ th[t].pc = "br_reap"
    /\ t \notin sig
    /\ sig' = sig \cup {t}
    /\ UNCHANGED <<handles, pending, completed, cvwake, devgone, th>>
    /\ EngineFrame

\* ---- usb_bulk_read, lines 335-399 ----

\* Lines 336-359: lock, fill in urb_in, dead check, submit, unlock; on a
\* failure usb_read goes on with the -1.
BulkReadSubmit(t) ==
    /\ th[t].pc = "br_start"
    /\ LET r == th[t]
           e == SubmitErrno
           k == BulkStart(handles[H], e)
       IN  /\ handles' = [handles EXCEPT ![H] =
                            IF k = "submitted"
                            THEN [@ EXCEPT !.urb_in = Urb(-1, 0, r.xfer), !.urb_in_busy = TRUE,
                                           !.reaper_thread = t]
                            ELSE [@ EXCEPT !.urb_in = Urb(-1, 0, r.xfer)]]
           /\ pending' = IF k = "submitted"
                         THEN Append(pending, [slot |-> "in", len |-> r.xfer, id |-> 0])
                         ELSE pending
           /\ th' = [th EXCEPT ![t] =
                        IF k = "submitted" THEN [r EXCEPT !.pc = "br_reap", !.bulks = Sat(@)]
                        ELSE AfterBulkRead([r EXCEPT !.bulks = Sat(@), !.n = -1,
                                               !.errno = IF k = "einval" THEN EINVAL ELSE e],
                                           handles[H].fd # "none")]
    /\ UNCHANGED <<completed, sig, cvwake, devgone>>
    /\ EngineFrame

\* Lines 363-366: the reap ioctl, made without the mutex.  The kernel hands
\* back the oldest completed transfer and stores its status and
\* actual_length in the urb it belongs to; a signal ends the call with EINTR;
\* with the device gone and nothing completed it fails with ENODEV.  A
\* signal still pending when the ioctl returns is handled then.
BulkReadReap(t) ==
    /\ th[t].pc = "br_reap"
    /\ \/ /\ completed # <<>>
          /\ LET c == Head(completed)
             IN  /\ handles' = [handles EXCEPT ![H] =
                                  IF c.slot = "in"
                                  THEN [@ EXCEPT !.urb_in.status = c.status,
                                                 !.urb_in.actual_length = c.actual]
                                  ELSE [@ EXCEPT !.urb_out.status = c.status,
                                                 !.urb_out.actual_length = c.actual]]
                 /\ th' = [th EXCEPT ![t] = [@ EXCEPT !.pc = "br_reaped", !.res = 0,
                                                      !.out = c.slot, !.saved_errno = th[t].errno]]
          /\ completed' = Tail(completed)
          /\ sig' = sig \ {t}
       \/ /\ t \in sig
          /\ sig' = sig \ {t}
          /\ th' = [th EXCEPT ![t] = [@ EXCEPT !.pc = "br_reaped", !.res = -1, !.out = "none",
                                               !.errno = EINTR, !.saved_errno = EINTR]]
          /\ UNCHANGED <<handles, completed>>
       \/ /\ completed = <<>>
          /\ devgone
          /\ th' = [th EXCEPT ![t] = [@ EXCEPT !.pc = "br_reaped", !.res = -1, !.out = "none",
                                               !.errno = ENODEV, !.saved_errno = ENODEV]]
          /\ sig' = sig \ {t}
          /\ UNCHANGED <<handles, completed>>
    /\ UNCHANGED <<pending, cvwake, devgone>>
    /\ EngineFrame

\* Line 357, the loop comes round to the reap ioctl again: out, res and
\* saved_errno are assigned afresh by lines 364-366.
Reaping(r) == [r EXCEPT !.pc = "br_reap", !.res = 0, !.out = "none", !.saved_errno = 0]

ReapOutcomeChecksDeadLast(h, r) ==
    IF r.res < 0 THEN (IF r.saved_errno = EINTR THEN "again" ELSE "error")
    ELSE IF r.out = "in" THEN "in"
    ELSE IF h.dead THEN "dead"
    ELSE "out"

ReapOutcomeEintrIsError(h, r) ==
    IF h.dead THEN "dead"
    ELSE IF r.res < 0 THEN "error"
    ELSE IF r.out = "in" THEN "in"
    ELSE "out"

\* Lines 370-397: the order of the tests after the reap: dead, then the
\* ioctl's failure (EINTR apart), then whose urb it was.
ReapOutcome(h, r) ==
    IF h.dead THEN "dead"
    ELSE IF r.res < 0 THEN (IF r.saved_errno = EINTR THEN "again" ELSE "error")
    ELSE IF r.out = "in" THEN "in"
    ELSE "out"

OutReapedKeepsBusy(h, t) == [h EXCEPT !.reaper_thread = t]

\* Lines 393-397 and 359: the out urb was reaped: urb_out_busy is cleared
\* and the loop records the reaper again.
OutReaped(h, t) == [h EXCEPT !.reaper_thread = t, !.urb_out_busy = FALSE]

\* Lines 368-398: lock again and look at what the reap brought.  got sums
\* the byte counts usb_bulk_read has returned to this usb_read call.
BulkReadAfterReap(t) ==
    /\ th[t].pc = "br_reaped"
    /\ LET r == th[t]
           h == handles[H]
           k == ReapOutcome(h, r)
       IN  CASE k = "dead" ->
                /\ handles' = [handles EXCEPT ![H].reaper_thread = "none"]
                /\ th' = [th EXCEPT ![t] = AfterBulkRead([r EXCEPT !.n = -1, !.errno = EINVAL],
                                                         h.fd # "none")]
                /\ UNCHANGED cvwake
             [] k = "again" ->
                /\ handles' = [handles EXCEPT ![H].reaper_thread = t]
                /\ th' = [th EXCEPT ![t] = Reaping(r)]
                /\ UNCHANGED cvwake
             [] k = "error" ->
                /\ handles' = [handles EXCEPT ![H].reaper_thread = "none"]
                /\ th' = [th EXCEPT ![t] =
                             AfterBulkRead([r EXCEPT !.n = -1, !.errno = r.saved_errno],
                                           h.fd # "none")]
                /\ UNCHANGED cvwake
             [] k = "in" ->
                /\ handles' = [handles EXCEPT ![H].reaper_thread = "none",
                                              ![H].urb_in_busy = FALSE]
                /\ th' = [th EXCEPT ![t] =
                             IF h.urb_in.status # 0
                             THEN AfterBulkRead([r EXCEPT !.n = -1, !.errno = -h.urb_in.status],
                                                h.fd # "none")
                             ELSE AfterBulkRead([r EXCEPT !.n = h.urb_in.actual_length,
                                                          !.got = @ + h.urb_in.actual_length],
                                                h.fd # "none")]
                /\ UNCHANGED cvwake
             [] k = "out" ->
                /\ handles' = [handles EXCEPT ![H] = OutReaped(h, t)]
                /\ th' = [th EXCEPT ![t] = Reaping(r)]
                /\ cvwake' = Waiting
    /\ UNCHANGED <<pending, completed, sig, devgone>>
    /\ EngineFrame

\* ---- usb_bulk_write, lines 296-333 ----

\* Lines 297-317: lock, fill in urb_out, dead check, submit, then the wait
\* releases the mutex.
BulkWriteSubmit(t) ==
    /\ th[t].pc = "bw_start"
    /\ LET r == th[t]
           e == SubmitErrno
           k == BulkStart(handles[H], e)
       IN  /\ handles' = [handles EXCEPT ![H] =
                            IF k = "submitted"
                            THEN [@ EXCEPT !.urb_out = Urb(-1, 0, r.xfer), !.urb_out_busy = TRUE]
                            ELSE [@ EXCEPT !.urb_out = Urb(-1, 0, r.xfer)]]
           /\ pending' = IF k = "submitted"
                         THEN Append(pending, [slot |-> "out", len |-> r.xfer, id |-> r.calls])
                         ELSE pending
           /\ th' = [th EXCEPT ![t] =
                        IF k = "submitted" THEN [r EXCEPT !.pc = "bw_wait", !.bulks = Sat(@)]
                        ELSE AfterBulkWrite([r EXCEPT !.bulks = Sat(@), !.n = -1,
                                                !.errno = IF k = "einval" THEN EINVAL ELSE e],
                                            handles[H].zero_mask)]
    /\ UNCHANGED <<completed, sig, cvwake, devgone>>
    /\ EngineFrame

WaitOutcomeDeadIsInvalid(h, timeout) ==
    IF h.dead THEN "invalid"
    ELSE IF timeout THEN "timeout"
    ELSE IF ~h.urb_out_busy THEN "complete"
    ELSE "wait"

\* Lines 321-331: what usb_bulk_write finds when wait_until has returned.
WaitOutcome(h, timeout) ==
    IF timeout \/ h.dead THEN "timeout"
    ELSE IF ~h.urb_out_busy THEN "complete"
    ELSE "wait"

\* Lines 318-332: wait_until returns (notified, woken spuriously, or after
\* the 5 s with timeout) and the thread holds the mutex again.
BulkWriteWake(t, timeout) ==
    /\ th[t].pc = "bw_wait"
    /\ LET r == th[t]
           h == handles[H]
           k == WaitOutcome(h, timeout)
       IN  /\ timeout \/ t \in cvwake \/ h.dead \/ ~h.urb_out_busy
           /\ th' = [th EXCEPT ![t] =
                        CASE k = "timeout" ->
                               AfterBulkWrite([r EXCEPT !.n = -1, !.errno = ETIMEDOUT], h.zero_mask)
                          [] k = "invalid" ->
                               AfterBulkWrite([r EXCEPT !.n = -1, !.errno = EINVAL], h.zero_mask)
                          [] k = "complete" ->
                               IF h.urb_out.status # 0
                               THEN AfterBulkWrite([r EXCEPT !.n = -1, !.errno = -h.urb_out.status],
                                                   h.zero_mask)
                               ELSE AfterBulkWrite([r EXCEPT !.n = h.urb_out.actual_length],
                                                   h.zero_mask)
                          [] k = "wait" -> r]
    /\ cvwake' = cvwake \ {t}
    /\ UNCHANGED <<handles, pending, completed, sig, devgone>>
    /\ EngineFrame

Next ==
    \/ \E t \in Readers, len \in Lengths : UsbReadCall(t, len)
    \/ \E t \in Readers : BulkReadSubmit(t)
    \/ \E t \in Readers : BulkReadReap(t)
    \/ \E t \in Readers : BulkReadAfterReap(t)
    \/ \E t \in Writers, len \in Lengths : UsbWriteCall(t, len)
    \/ \E t \in Writers : BulkWriteSubmit(t)
    \/ \E t \in Writers, timeout \in BOOLEAN : BulkWriteWake(t, timeout)
    \/ \E t \in Threads : UsbReturn(t)
    \/ \E slot \in {"in", "out"}, status \in UrbStatuses, actual \in Lengths :
          KernelComplete(slot, status, actual)
    \/ DeviceGone
    \/ \E t \in Threads : SignalHandled(t)
    \/ \E t \in Readers : EnvSignal(t)
    \/ ExtKick(H)

Spec == InitEngine /\ [][Next]_vars

\* ---- a writer that calls usb_write again after a failure ----

\* Line 402, len: every write is of one byte, and the handle has no
\* zero_mask, so each usb_write makes one usb_bulk_write (line 407) and the
\* writer's call count names the transfer it submitted.
WriterLengths == {1}

WriterOps == 2

InitWrites ==
    /\ handles = [h \in HandleIds |->
                     IF h = H
                     THEN [NewHandle("/dev/bus/usb/001/001", ZeroMask(0, 2)) EXCEPT
                              !.fd = "rw", !.writeable = TRUE,
                              !.claimed = TRUE, !.mark = FALSE, !.attached = 1]
                     ELSE FreeSlot]
    /\ g_usb_handles = <<H>>
    /\ g_usb_handles_mutex = "none"
    /\ spc = "idle"
    /\ cur = NoCur
    /\ kd_idx = 1
    /\ present = {"/dev/bus/usb/001/001"}
    /\ visited = {}
    /\ mustlist = {}
    /\ ParserIdle
    /\ KernelIdle
    /\ th = [t \in Threads |-> IdleThread(0)]

NextWrites ==
    \/ \E t \in Readers, len \in Lengths : UsbReadCall(t, len)
    \/ \E t \in Readers : BulkReadSubmit(t)
    \/ \E t \in Readers : BulkReadReap(t)
    \/ \E t \in Readers : BulkReadAfterReap(t)
    \/ \E t \in Writers, len \in WriterLengths : UsbWriteCallWithin(t, len, WriterOps)
    \/ \E t \in Writers : BulkWriteSubmit(t)
    \/ \E t \in Writers, timeout \in BOOLEAN : BulkWriteWake(t, timeout)
    \/ \E t \in Threads : UsbReturn(t)
    \/ \E slot \in {"in", "out"}, status \in UrbStatuses, actual \in Lengths :
          KernelComplete(slot, status, actual)
    \/ DeviceGone
    \/ \E t \in Threads : SignalHandled(t)
    \/ ExtKick(H)

SpecWrites == InitWrites /\ [][NextWrites]_vars

\* ---- two threads reading the same handle ----

\* usb_read (line 406) takes any caller: nothing in usb_handle says which
\* thread reads, and urb_in and reaper_thread (lines 64, 71) exist once.
ReaderPool == {"r1", "r2"}

\* Line 423, len: each of the two reads asks for one byte, which usb_read
\* hands to usb_bulk_read whole (line 431).  zero_mask plays no part in a
\* read, so the handle has none.
ReaderLengths == {1}

\* A registered writable handle (register_device, lines 567-597) and two
\* threads that have not called usb_read yet.
InitReaders ==
    /\ handles = [h \in HandleIds |->
                     IF h = H
                     THEN [NewHandle("/dev/bus/usb/001/001", ZeroMask(0, 2)) EXCEPT
                              !.fd = "rw", !.writeable = TRUE,
                              !.claimed = TRUE, !.mark = FALSE, !.attached = 1]
                     ELSE FreeSlot]
    /\ g_usb_handles = <<H>>
    /\ g_usb_handles_mutex = "none"
    /\ spc = "idle"
    /\ cur = NoCur
    /\ kd_idx = 1
    /\ present = {"/dev/bus/usb/001/001"}
    /\ visited = {}
    /\ mustlist = {}
    /\ ParserIdle
    /\ KernelIdle
    /\ th = [t \in ReaderPool |-> IdleThread(0)]

NextReaders ==
    \/ \E t \in ReaderPool, len \in ReaderLengths : UsbReadCall(t, len)
    \/ \E t \in ReaderPool : BulkReadSubmit(t)
    \/ \E t \in ReaderPool : BulkReadReap(t)
    \/ \E t \in ReaderPool : BulkReadAfterReap(t)
    \/ \E t \in ReaderPool : UsbReturn(t)
    \/ \E status \in UrbStatuses, actual \in Lengths : KernelComplete("in", status, actual)
    \/ DeviceGone
    \/ \E t \in ReaderPool : SignalHandled(t)
    \/ \E t \in ReaderPool : EnvSignal(t)
    \/ ExtKick(H)

\* A thread that can take its next step takes it: the mutex is free between
\* steps and the reap ioctl returns once a completion, a signal or the
\* loss of the device is there for it.  Nothing obliges the device to
\* complete a transfer, a signal to arrive, or anyone to kick.
ReadersFair ==
    \A t \in ReaderPool :
        /\ WF_vars(BulkReadSubmit(t))
        /\ WF_vars(BulkReadReap(t))
        /\ WF_vars(BulkReadAfterReap(t))
        /\ WF_vars(UsbReturn(t))

SpecReaders == InitReaders /\ [][NextReaders]_vars /\ ReadersFair

\* ---- the two kinds of mutex, acquired and released step by step ----

\* Lines 75 and 84: usb_handle::mutex of slot h is lock h, the one
\* g_usb_handles_mutex is lock 0.
RegistryLock == 0

LockThreads == {"scanner", "r1", "w1", "t1"}

\* The functions each thread calls: the device poll thread (lines 574-584
\* with find_usb_device), a thread in usb_read, one in usb_write, and a
\* transport thread that kicks and closes.
Functions(t) ==
    CASE t = "scanner" -> {"is_known_device", "register_device", "kick_disconnected_devices"}
      [] t = "r1" -> {"usb_bulk_read"}
      [] t = "w1" -> {"usb_bulk_write"}
      [] t = "t1" -> {"usb_kick", "usb_close"}

Op(op, arg) == [op |-> op, arg |-> arg]

\* unregister_usb_transport (transport.cpp), called at line 485 under
\* h->mutex: it works on the transport list and takes neither kind of mutex.
UnregisterProgram(h) == <<>>

KickProgramTakesRegistry(h) ==
    <<Op("lock", h), Op("lock", RegistryLock), Op("unlock", RegistryLock),
      Op("dead", h), Op("unlock", h)>>

\* Lines 457-488: usb_kick holds h->mutex from its first line to its last.
KickProgram(h) ==
    <<Op("lock", h)>> \o UnregisterProgram(h) \o <<Op("dead", h), Op("unlock", h)>>

\* What a function does with the mutexes, in program order.  The reap
\* ioctl (line 365) and the condition wait (line 320) happen between an
\* unlock and the next lock.
LockProgram(fn, h, p) ==
    CASE fn = "is_known_device" ->            \* lines 87-97
           <<Op("lock", RegistryLock), Op("mark", p), Op("unlock", RegistryLock)>>
      [] fn = "register_device" ->            \* lines 512-520 and 567-570
           <<Op("lock", RegistryLock), Op("check", p), Op("unlock", RegistryLock),
             Op("lock", RegistryLock), Op("insert", p), Op("unlock", RegistryLock)>>
      [] fn = "kick_disconnected_devices" ->  \* lines 99-109
           <<Op("lock", RegistryLock), Op("sweep", 0), Op("unlock", RegistryLock)>>
      [] fn = "usb_kick" -> KickProgram(h)
      [] fn = "usb_close" ->                  \* lines 490-499
           <<Op("lock", RegistryLock), Op("remove", h), Op("unlock", RegistryLock)>>
      [] fn = "usb_bulk_read" ->              \* lines 336-361 and 368-398
           <<Op("lock", h), Op("unlock", h), Op("lock", h), Op("unlock", h)>>
      [] fn = "usb_bulk_write" ->             \* lines 297-320 and 320-332
           <<Op("lock", h), Op("unlock", h), Op("lock", h), Op("unlock", h)>>

\* Lines 102-108: the sweep, with the registry as it is once the lock is
\* held: a usb_kick for every handle without a mark, the mark cleared
\* for the others.
RECURSIVE SweepProgram(_)
SweepProgram(hs) ==
    IF hs = <<>> THEN <<>>
    ELSE (IF handles[Head(hs)].mark THEN <<Op("unmark", Head(hs))>> ELSE KickProgram(Head(hs)))
         \o SweepProgram(Tail(hs))

Holder(l) == IF l = RegistryLock THEN g_usb_handles_mutex ELSE handles[l].mutex

IdleLocker == [fn |-> "none", h |-> 0, todo |-> <<>>]

\* The mutex is taken: the thread waits at a lock operation.
Blocked(t) ==
    /\ th[t].todo # <<>>
    /\ Head(th[t].todo).op = "lock"
    /\ Holder(Head(th[t].todo).arg) # "none"

\* Registered handles with fd open and a transport attached, nothing
\* locked, every thread between two calls.
InitLocks ==
    /\ \E w \in BOOLEAN :
          handles = [h \in HandleIds |->
                        IF h = H
                        THEN [NewHandle("/dev/bus/usb/001/001", U32Zero) EXCEPT
                                 !.fd = IF w THEN "rw" ELSE "ro", !.writeable = w,
                                 !.claimed = w, !.mark = FALSE, !.attached = 1]
                        ELSE FreeSlot]
    /\ g_usb_handles = <<H>>
    /\ g_usb_handles_mutex = "none"
    /\ spc = "idle"
    /\ cur = NoCur
    /\ kd_idx = 1
    /\ present = Paths
    /\ visited = {}
    /\ mustlist = {}
    /\ ParserIdle
    /\ KernelIdle
    /\ th = [t \in LockThreads |-> IdleLocker]

LocksFrame == UNCHANGED <<pvars, kvars, spc, cur, kd_idx, present, visited, mustlist>>

\* A thread calls fn.  usb_read, usb_write, usb_kick and usb_close are called
\* on a live handle; usb_close is the last call made on a handle, when no
\* other caller thread is inside a function on it.
Call(t, fn, h, p) ==
    /\ th[t].fn = "none"
    /\ fn \in Functions(t)
    /\ t # "scanner" => (h \in Registered /\ handles[h].live)
    /\ t = "scanner" => h = 0
    /\ \A u \in LockThreads \ {"scanner"} :
          ~(th[u].fn = "usb_close" /\ th[u].h = h)
    /\ fn = "usb_close" => \A u \in LockThreads \ {"scanner"} : th[u].h # h
    /\ th' = [th EXCEPT ![t] = [fn |-> fn, h |-> h, todo |-> LockProgram(fn, h, p)]]
    /\ UNCHANGED <<handles, g_usb_handles, g_usb_handles_mutex>>
    /\ LocksFrame

SetHolder(l, v) ==
    IF l = RegistryLock
    THEN g_usb_handles_mutex' = v /\ UNCHANGED handles
    ELSE handles' = [handles EXCEPT ![l].mutex = v] /\ UNCHANGED g_usb_handles_mutex

Finish(t, todo) ==
    th' = [th EXCEPT ![t] = IF todo = <<>> THEN IdleLocker ELSE [@ EXCEPT !.todo = todo]]

\* std::mutex::lock: the thread goes on once nobody holds the mutex.
Lock(t) ==
    /\ th[t].todo # <<>>
    /\ Head(th[t].todo).op = "lock"
    /\ Holder(Head(th[t].todo).arg) = "none"
    /\ SetHolder(Head(th[t].todo).arg, t)
    /\ Finish(t, Tail(th[t].todo))
    /\ UNCHANGED g_usb_handles
    /\ LocksFrame

Unlock(t) ==
    /\ th[t].todo # <<>>
    /\ Head(th[t].todo).op = "unlock"
    /\ SetHolder(Head(th[t].todo).arg, "none")
    /\ Finish(t, Tail(th[t].todo))
    /\ UNCHANGED g_usb_handles
    /\ LocksFrame

\* What a function does while it holds its mutex.
Body(t) ==
    /\ th[t].todo # <<>>
    /\ LET o == Head(th[t].todo)
           rest == Tail(th[t].todo)
       IN  /\ o.op \notin {"lock", "unlock"}
           /\ CASE o.op = "mark" ->       \* lines 89-95
                     /\ handles' = IF Matching(o.arg) # <<>>
                                   THEN [handles EXCEPT ![Head(Matching(o.arg))].mark = TRUE]
                                   ELSE handles
                     /\ Finish(t, rest)
                     /\ UNCHANGED g_usb_handles
                [] o.op = "check" ->      \* lines 514-518: return if the path is known
                     /\ Finish(t, IF Matching(o.arg) # <<>> THEN <<Op("unlock", RegistryLock)>>
                                  ELSE rest)
                     /\ UNCHANGED <<handles, g_usb_handles>>
                [] o.op = "insert" ->     \* lines 565-570
                     /\ IF FreeSlots # {}
                        THEN LET slot == CHOOSE h \in FreeSlots : \A g \in FreeSlots : h <= g
                             IN  /\ handles' = [handles EXCEPT ![slot] =
                                                   [NewHandle(o.arg, U32Zero) EXCEPT
                                                       !.fd = "rw", !.claimed = TRUE,
                                                       !.attached = 1]]
                                 /\ g_usb_handles' = Append(g_usb_handles, slot)
                        ELSE UNCHANGED <<handles, g_usb_handles>>
                     /\ Finish(t, rest)
                [] o.op = "sweep" ->      \* lines 102-108
                     /\ Finish(t, SweepProgram(g_usb_handles) \o rest)
                     /\ UNCHANGED <<handles, g_usb_handles>>
                [] o.op = "unmark" ->     \* line 106
                     /\ handles' = [handles EXCEPT ![o.arg].mark = FALSE]
                     /\ Finish(t, rest)
                     /\ UNCHANGED g_usb_handles
                [] o.op = "dead" ->       \* lines 460-487
                     /\ handles' = [handles EXCEPT ![o.arg] = KickedHandle(@)]
                     /\ Finish(t, rest)
                     /\ UNCHANGED g_usb_handles
                [] o.op = "remove" ->     \* lines 492-496
                     /\ g_usb_handles' = SelectSeq(g_usb_handles, LAMBDA x : x # o.arg)
                     /\ handles' = [handles EXCEPT ![o.arg] = FreeSlot]
                     /\ Finish(t, rest)
    /\ UNCHANGED g_usb_handles_mutex
    /\ LocksFrame

NextLocks ==
    \/ \E t \in LockThreads, h \in {0} \cup HandleIds, p \in Paths :
          \E fn \in Functions(t) : Call(t, fn, h, p)
    \/ \E t \in LockThreads : Lock(t)
    \/ \E t \in LockThreads : Unlock(t)
    \/ \E t \in LockThreads : Body(t)

SpecLocks == InitLocks /\ [][NextLocks]_vars

(***************************************************************************)
(* C7: for every buffer and every valid length L the parser never reads a  *)
(* byte at index >= L, and a buffer shorter than the device and config     *)
(* headers yields no registration callback.  (Stated as claimed; the       *)
(* descriptor loop reads bufptr[1] with only bufptr[0] known to be inside  *)
(* the read, and the fields of an interface record before any bound is     *)
(* tested.)                                                                *)
(***************************************************************************)
C7_NoReadBeyondLength ==
    /\ maxread < desclength
    /\ (desclength < USB_DT_DEVICE_SIZE + USB_DT_CONFIG_SIZE => ~callback.called)

(***************************************************************************)
(* C8: when the callback is invoked for two endpoint records whose         *)
(* addresses differ in the direction bit (0x80), ep_in is the address that *)
(* carries the bit and ep_out the other one, in either order of the two    *)
(* records.                                                                *)
(***************************************************************************)
HasDirBit(addr) == (addr \div 128) % 2 = 1

C8_EndpointDirection ==
    (callback.called /\ HasDirBit(Byte(ep1 + 2)) # HasDirBit(Byte(ep2 + 2)))
        => /\ HasDirBit(callback.ep_in)
           /\ ~HasDirBit(callback.ep_out)
           /\ {callback.ep_in, callback.ep_out} = {Byte(ep1 + 2), Byte(ep2 + 2)}

\* The OUT endpoint comes first in the buffer and the callback has been invoked.
C8_Witness ==
    /\ callback.called
    /\ ppc = "closed"
    /\ ~HasDirBit(Byte(ep1 + 2))
    /\ HasDirBit(Byte(ep2 + 2))
    /\ callback.ep_in = Byte(ep2 + 2)

C3_SweepKicksUnlisted ==
    /\ spc = "sleep"
          => \A h \in Registered : handles[h].path \notin visited => handles[h].dead
    /\ \A h \in HandleIds :
          handles[h].live
              => handles[h].unregistered
                    = (IF handles[h].dead /\ ~handles[h].writeable THEN 1 ELSE 0)

\* A cycle has ended that did not list the path of a read-only handle which
\* an earlier cycle had already found missing: it is dead, notified once.
C3_Witness ==
    /\ spc = "sleep"
    /\ \E h \in Registered :
          /\ handles[h].path \notin visited
          /\ handles[h].path \notin present
          /\ handles[h].dead
          /\ ~handles[h].writeable
          /\ handles[h].unregistered = 1

(***************************************************************************)
(* C9: a dead (kicked) handle is still in g_usb_handles with its fd open;  *)
(* the step that makes a handle dead changes neither the registry nor the  *)
(* handle's fd; and only usb_close removes a handle from the registry or   *)
(* destroys it.                                                            *)
(***************************************************************************)
C9_KickKeepsHandle ==
    /\ [](\A h \in HandleIds :
            (handles[h].live /\ handles[h].dead)
                => (h \in Registered /\ handles[h].fd # "none"))
    /\ [][\A h \in HandleIds :
            (~handles[h].dead /\ handles'[h].dead)
                => /\ g_usb_handles' = g_usb_handles
                   /\ handles'[h].live
                   /\ handles'[h].fd = handles[h].fd]_vars
    /\ [][\A h \in HandleIds :
            ((h \in Registered /\ h \notin Registered') \/ (handles[h].live /\ ~handles'[h].live))
                => usb_close(h)]_vars

\* A writable handle has been kicked and is still registered and open.
C9_Witness ==
    \E h \in Registered :
        handles[h].dead /\ handles[h].writeable /\ handles[h].fd = "rw" /\ handles[h].live

(***************************************************************************)
(* C10: every handle in the registry has its device node open, is writable *)
(* exactly if the read-write open succeeded, and if writable has claimed   *)
(* the interface; only a handle in the registry is given to                *)
(* register_usb_transport; and a register_device that gives up after the   *)
(* opens or the claim leaves the registry and every handle as they were.   *)
(***************************************************************************)
C10_OnlyOpenedAndClaimed ==
    /\ [](\A h \in HandleIds :
            /\ handles[h].live
                  => /\ h \in Registered
                     /\ handles[h].fd # "none"
                     /\ handles[h].writeable <=> handles[h].fd = "rw"
                     /\ handles[h].writeable => handles[h].claimed
            /\ handles[h].attached > 0 => handles[h].live)
    /\ [][(spc = "rd_open" /\ spc' = "walk")
            => (handles' = handles /\ g_usb_handles' = g_usb_handles)]_vars

\* A handle opened read-only is registered, not writable, and was attached.
C10_Witness ==
    \E h \in Registered :
        /\ handles[h].fd = "ro"
        /\ ~handles[h].writeable
        /\ ~handles[h].claimed
        /\ handles[h].attached = 1


(***************************************************************************)
(* C1 (as amended): once the dead flag is set, every usb_bulk_read and     *)
(* usb_bulk_write that starts afterwards fails with EINVAL without         *)
(* submitting a transfer, without setting a busy flag and without          *)
(* entering the wait or the reap call; so every usb_write, and every       *)
(* usb_read of a length above zero, that starts on a dead handle returns   *)
(* -1 with errno EINVAL after one bulk call.                               *)
(***************************************************************************)
C1_DeadFailsWithoutSubmit ==
    /\ [][\A t \in Threads :
            (th[t].pc \in {"br_start", "bw_start"} /\ handles[H].dead /\ th'[t] # th[t])
            => /\ th'[t].pc = "done"
               /\ th'[t].n = -1
               /\ th'[t].ret = -1
               /\ th'[t].errno = EINVAL
               /\ pending' = pending
               /\ handles'[H].urb_in_busy = handles[H].urb_in_busy
               /\ handles'[H].urb_out_busy = handles[H].urb_out_busy
               /\ handles'[H].reaper_thread = handles[H].reaper_thread]_vars
    /\ [](\A t \in Threads :
            (th[t].pc = "done" /\ th[t].deadstart /\ (th[t].op = "write" \/ th[t].req > 0))
            => (th[t].ret = -1 /\ th[t].errno = EINVAL /\ th[t].bulks = 1))

C1_Witness ==
    \E t \in Readers :
        /\ th[t].pc = "done"
        /\ th[t].deadstart
        /\ th[t].req > 0
        /\ th[t].ret = -1
        /\ th[t].errno = EINVAL
        /\ pending = <<>>

\* C1 as stated: every usb_read and usb_write that starts on a dead handle
\* fails with EINVAL.
C1_EveryCallOnDeadFails ==
    \A t \in Threads :
        (th[t].pc = "done" /\ th[t].deadstart) => (th[t].ret = -1 /\ th[t].errno = EINVAL)

(***************************************************************************)
(* C4: usb_write issues one more, zero-length, bulk write after a          *)
(* successful payload write if and only if the zero-packet mask is         *)
(* non-zero and the length is a non-zero multiple of the packet size       *)
(* (mask + 1).                                                             *)
(***************************************************************************)
IsNonZeroMultiple(len, zero_mask) ==
    len > 0 /\ zero_mask.hi = 0 /\ len % (zero_mask.lo + 1) = 0

C4_ZeroPacketOnMultiple ==
    \A t \in Writers :
        (th[t].pc = "done" /\ th[t].op = "write")
        => ((th[t].bulks = 2)
            <=> /\ th[t].pn = th[t].req
                /\ handles[H].zero_mask # U32Zero
                /\ IsNonZeroMultiple(th[t].req, handles[H].zero_mask))

ScannerAboutToKick ==
    /\ spc = "kd"
    /\ kd_idx <= Len(g_usb_handles)
    /\ ~handles[g_usb_handles[kd_idx]].mark

C13_NoHandleLockUnderRegistryLock ==
    ScannerAboutToKick => g_usb_handles_mutex # "scanner"

(***************************************************************************)
(* C14: when the directory walk reaches a path that has a handle in the    *)
(* registry, dead or alive, that handle's mark is set and the path is      *)
(* neither opened, parsed nor registered; for a path that is not in the    *)
(* registry is_known_device changes nothing.                               *)
(***************************************************************************)
C14_KnownPathMarkedNotProbed ==
    [][\A p \in Paths :
          (spc = "walk" /\ p \notin visited /\ p \in visited')
          => IF \E h \in Registered : handles[h].path = p
             THEN /\ \A h \in Registered : handles[h].path = p => handles'[h].mark
                  /\ \A h \in HandleIds : handles'[h] = [handles[h] EXCEPT !.mark = handles'[h].mark]
                  /\ spc' = "walk"
                  /\ cur' = cur
                  /\ g_usb_handles' = g_usb_handles
             ELSE /\ handles' = handles
                  /\ g_usb_handles' = g_usb_handles
                  /\ spc' = "probe"]_vars

C14_Witness ==
    \E h \in Registered :
        /\ handles[h].dead
        /\ handles[h].mark
        /\ handles[h].path \in visited
        /\ spc = "walk"


(***************************************************************************)
(* C15: for a writable handle dead implies that neither busy flag is set,  *)
(* in every reachable state; the step that sets dead clears both flags     *)
(* and stores -ENODEV in both urbs.                                        *)
(***************************************************************************)
C15_DeadImpliesNotBusy ==
    /\ [](\A h \in HandleIds :
            (handles[h].live /\ handles[h].writeable /\ handles[h].dead)
            => (~handles[h].urb_in_busy /\ ~handles[h].urb_out_busy))
    /\ [][\A h \in HandleIds :
            (handles[h].live /\ handles[h].writeable /\ ~handles[h].dead /\ handles'[h].dead)
            => /\ ~handles'[h].urb_in_busy
               /\ ~handles'[h].urb_out_busy
               /\ handles'[h].urb_in.status = -ENODEV
               /\ handles'[h].urb_out.status = -ENODEV]_vars

C15_Witness ==
    /\ handles[H].dead
    /\ handles[H].writeable
    /\ \E t \in Readers : th[t].pc = "br_reap"
    /\ \E t \in Writers : th[t].pc = "bw_wait"

(***************************************************************************)
(* C16: a usb_kick of a writable handle that is not yet dead signals the   *)
(* recorded reaper, if there is one, before the discards, and issues both  *)
(* discards whether or not a reaper is recorded or a transfer in flight;   *)
(* a usb_kick of a read-only handle signals nobody and discards nothing.   *)
(***************************************************************************)
Position(cs, c) ==
    IF \E i \in 1..Len(cs) : cs[i] = c
    THEN CHOOSE i \in 1..Len(cs) : cs[i] = c /\ \A j \in 1..(i - 1) : cs[j] # c
    ELSE 0

InFlight(slot) ==
    Cardinality({ i \in 1..Len(pending) : pending[i].slot = slot })

C16_SignalBeforeDiscards ==
    [][\A h \in HandleIds :
          (handles[h].live /\ ~handles[h].dead /\ handles'[h].dead)
          => LET cs == KickCalls(handles[h])
                 rt == handles[h].reaper_thread
             IN  IF handles[h].writeable
                 THEN /\ Position(cs, "discard_in") > 0
                      /\ Position(cs, "discard_out") > Position(cs, "discard_in")
                      /\ (rt # "none") <=> (Position(cs, "pthread_kill") > 0)
                      /\ (rt # "none") => Position(cs, "pthread_kill") < Position(cs, "discard_in")
                      /\ (rt \in DOMAIN th /\ th[rt].pc = "br_reap") => rt \in sig'
                      /\ InFlight("in")' = IF InFlight("in") > 0 THEN InFlight("in") - 1 ELSE 0
                      /\ InFlight("out")' = IF InFlight("out") > 0 THEN InFlight("out") - 1 ELSE 0
                      /\ Len(pending') + Len(completed') = Len(pending) + Len(completed)
                 ELSE /\ Position(cs, "pthread_kill") = 0
                      /\ Position(cs, "discard_in") = 0
                      /\ Position(cs, "discard_out") = 0
                      /\ sig' = sig
                      /\ pending' = pending
                      /\ completed' = completed]_vars

C16_Witness ==
    /\ handles[H].dead
    /\ handles[H].writeable
    /\ \E t \in Readers : t \in sig /\ th[t].pc = "br_reap"
    /\ \E i \in 1..Len(completed) : completed[i].slot = "in" /\ completed[i].status = -ENOENT
    /\ \E i \in 1..Len(completed) : completed[i].slot = "out" /\ completed[i].status = -ENOENT


(***************************************************************************)
(* C17: a usb_bulk_write that leaves its wait while the out urb is still   *)
(* busy (the wait timed out) or while the handle is dead fails with        *)
(* ETIMEDOUT, never EINVAL, and submits nothing more.                      *)
(***************************************************************************)
C17_WaitingWriteTimesOut ==
    [][\A t \in Writers :
          (/\ th[t].pc = "bw_wait"
           /\ th'[t].pc # "bw_wait"
           /\ (handles[H].dead \/ handles[H].urb_out_busy))
          => /\ th'[t].n = -1
             /\ th'[t].errno = ETIMEDOUT
             /\ th'[t].pc = "done"
             /\ th'[t].ret = -1
             /\ th'[t].bulks = th[t].bulks
             /\ pending' = pending]_vars

C17_Witness ==
    \E t \in Writers :
        /\ th[t].pc = "done"
        /\ th[t].errno = ETIMEDOUT
        /\ th[t].ret = -1
        /\ ~th[t].deadstart
        /\ handles[H].dead
        /\ handles[H].urb_out.status = -ENODEV
        /\ InFlight("out") = 0

C19_SubmitOncePerRead ==
    /\ [][\A t \in Readers :
            (/\ th[t].pc = "br_reaped"
             /\ th'[t].pc # "br_reaped"
             /\ ~handles[H].dead
             /\ th[t].res < 0)
            => IF th[t].saved_errno = EINTR
               THEN /\ th'[t].pc = "br_reap"
                    /\ th'[t].bulks = th[t].bulks
                    /\ pending' = pending
                    /\ completed' = completed
               ELSE /\ th'[t].n = -1
                    /\ th'[t].errno = th[t].saved_errno
                    /\ th'[t].pc \in {"done", "br_start"}
                    /\ pending' = pending]_vars
    /\ [][InFlight("in")' > InFlight("in")
            => \E t \in Readers :
                  /\ th[t].pc = "br_start"
                  /\ th'[t].pc = "br_reap"
                  /\ th'[t].bulks = Sat(th[t].bulks)
                  /\ InFlight("in")' = InFlight("in") + 1]_vars

C19_Witness ==
    \E t \in Readers :
        /\ th[t].pc = "br_reap"
        /\ th[t].errno = EINTR
        /\ th[t].bulks = 1
        /\ ~handles[H].dead
        /\ InFlight("in") = 1

(***************************************************************************)
(* C20: a reader that finds the handle dead after its reap fails with      *)
(* EINVAL whatever the reap returned; no read returns a byte count taken   *)
(* from a dead handle.                                                     *)
(***************************************************************************)
C20_DeadAfterReapIsInvalid ==
    [][\A t \in Readers :
          (/\ th[t].pc = "br_reaped"
           /\ th'[t].pc # "br_reaped"
           /\ handles[H].dead)
          => /\ th'[t].n = -1
             /\ th'[t].errno = EINVAL
             /\ th'[t].pc = "done"
             /\ th'[t].ret = -1
             /\ pending' = pending]_vars

C20_Witness ==
    \E t \in Readers :
        /\ th[t].pc = "done"
        /\ th[t].errno = EINVAL
        /\ th[t].ret = -1
        /\ ~th[t].deadstart
        /\ th[t].bulks = 1
        /\ handles[H].dead
        /\ handles[H].urb_in.status = 0
        /\ handles[H].urb_in.actual_length > 0


(***************************************************************************)
(* C11: once a writable handle is dead, every thread blocked in the reap   *)
(* eventually leaves it, under fair scheduling of the threads, whether or  *)
(* not the signal of usb_kick reaches it.                                  *)
(***************************************************************************)
C11_KickedReaperReturns ==
    \A t \in ReaderPool :
        (handles[H].dead /\ th[t].pc = "br_reap") ~> (th[t].pc # "br_reap")

(***************************************************************************)
(* C12: at most one thread at a time is inside the reap ioctl.             *)
(***************************************************************************)
C12_OneReaperAtATime ==
    Cardinality({ t \in DOMAIN th : th[t].pc = "br_reap" }) <= 1


(***************************************************************************)
(* C21: until kick_disconnected_devices has passed it, a registered handle *)
(* whose path the walk of this cycle listed (is_known_device saw it, or    *)
(* register_device inserted it) is marked; and the sweep step on such a    *)
(* handle does not kick it: it only clears the mark.                       *)
(***************************************************************************)
ListedThisCycle(h) == handles[h].path \in visited

C21_ListedHandleNotKicked ==
    /\ [](\A i \in 1..Len(g_usb_handles) :
            (/\ ListedThisCycle(g_usb_handles[i])
             /\ spc # "sleep"
             /\ (spc = "kd" => i >= kd_idx))
            => handles[g_usb_handles[i]].mark)
    /\ [][\A h \in HandleIds :
            (/\ spc = "kd"
             /\ kd_idx <= Len(g_usb_handles)
             /\ g_usb_handles[kd_idx] = h
             /\ kd_idx' = kd_idx + 1
             /\ ListedThisCycle(h))
            => /\ handles' = [handles EXCEPT ![h].mark = FALSE]
               /\ UNCHANGED kvars]_vars

\* The sweep has passed a live handle inserted during this walk and another
\* one that is_known_device saw: neither is dead.
C21_Witness ==
    /\ spc = "sleep"
    /\ Len(g_usb_handles) = 2
    /\ \A h \in Registered :
          ListedThisCycle(h) /\ ~handles[h].dead /\ ~handles[h].mark
    /\ \E h \in Registered : handles[h].attached = 1


(***************************************************************************)
(* C22: every iteration of the descriptor loop either moves the cursor     *)
(* forward or leaves the loop (so the walk of a buffer ends after at most  *)
(* desclength iterations, whatever the records declare).                   *)
(***************************************************************************)
C22_IterationAdvancesOrLeaves ==
    [][(ppc = "loop" /\ iters' # iters) => (bufptr' > bufptr \/ ppc' = "closed")]_vars


(***************************************************************************)
(* C23: when the two records after a matched interface are not two         *)
(* endpoint records of bulk type, the walk goes on, and a later matching   *)
(* interface of the same buffer with two bulk endpoints is the one handed  *)
(* to the registration callback.                                           *)
(***************************************************************************)
FirstInterfaceValid ==
    /\ Byte(USB_DT_DEVICE_SIZE + USB_DT_CONFIG_SIZE + USB_DT_INTERFACE_SIZE)
          = USB_DT_ENDPOINT_SIZE
    /\ \A i \in 0..1 :
          LET e == USB_DT_DEVICE_SIZE + USB_DT_CONFIG_SIZE + USB_DT_INTERFACE_SIZE
                     + i * USB_DT_ENDPOINT_SIZE
          IN  Byte(e + 1) = USB_DT_ENDPOINT /\ Byte(e + 3) = USB_ENDPOINT_XFER_BULK

C23_LaterInterfaceReported ==
    (/\ ppc = "closed"
     /\ devdesc \in LaterInterfaceBuffers
     /\ desclength = Len(devdesc)
     /\ ~FirstInterfaceValid)
    => (callback.called /\ callback.interface = 2)


(***************************************************************************)
(* C24: a usb_bulk_write has returned from its wait with the out urb still *)
(* busy and its transfer still queued.  A usb_kick that comes then sets    *)
(* dead, discards the out transfer, clears urb_out_busy and wakes the      *)
(* waiters; and from then on every usb_write, and every usb_read of a      *)
(* length above zero, that starts on the dead handle fails with EINVAL.    *)
(***************************************************************************)
TimedOutInFlight ==
    /\ handles[H].writeable
    /\ ~handles[H].dead
    /\ handles[H].urb_out_busy
    /\ InFlight("out") > 0
    /\ \A t \in Writers : th[t].pc # "bw_wait"
    /\ \E t \in Writers : th[t].pc \in {"done", "idle"} /\ th[t].errno = ETIMEDOUT

KickCleansUp ==
    /\ "discard_out" \in { KickCalls(handles[H])[i] : i \in 1..Len(KickCalls(handles[H])) }
    /\ InFlight("out")' = InFlight("out") - 1
    /\ \E i \in 1..Len(completed') :
          completed'[i].slot = "out" /\ completed'[i].status = -ENOENT
    /\ ~handles'[H].urb_out_busy
    /\ ~handles'[H].urb_in_busy
    /\ cvwake' = Waiting

KickedAfterTimeout ==
    /\ handles[H].dead
    /\ \E i \in 1..Len(completed) :
          completed[i].slot = "out" /\ completed[i].id = 1 /\ completed[i].status = -ENOENT
    /\ \E t \in Writers : th[t].calls = 2 /\ ~th[t].deadstart

OwnTransferUnreaped(t) ==
    \/ \E i \in 1..Len(pending) : pending[i].slot = "out" /\ pending[i].id = th[t].calls
    \/ \E i \in 1..Len(completed) : completed[i].slot = "out" /\ completed[i].id = th[t].calls

C25_CountIsOfOwnTransfer ==
    [][\A t \in Writers :
          (th[t].pc = "bw_wait" /\ th'[t].pc # "bw_wait" /\ th'[t].n >= 0)
          => ~OwnTransferUnreaped(t)]_vars


(***************************************************************************)
(* C26: urb_out_busy is cleared only by usb_kick or by a reader that has   *)
(* reaped a completion of the out urb; and a usb_bulk_write returns a byte *)
(* count only when a reader has reaped the completion of its transfer, so  *)
(* a write whose completion nobody has reaped ends with ETIMEDOUT.         *)
(***************************************************************************)
BusyClearedByReaperOrKick ==
    (handles[H].urb_out_busy /\ ~handles'[H].urb_out_busy)
    => \/ ~handles[H].dead /\ handles'[H].dead
       \/ \E t \in Readers :
             /\ th[t].pc = "br_reaped"
             /\ th[t].res >= 0
             /\ th[t].out = "out"
             /\ th'[t].pc = "br_reap"

UnreapedWriteTimesOut ==
    \A t \in Writers :
        (th[t].pc = "bw_wait" /\ th'[t].pc # "bw_wait" /\ OwnTransferUnreaped(t))
        => (th'[t].n = -1 /\ th'[t].errno = ETIMEDOUT)

C26_CountOnlyAfterReap ==
    /\ [][BusyClearedByReaperOrKick]_vars
    /\ [][UnreapedWriteTimesOut]_vars


(***************************************************************************)
(* C27: no set of threads is such that each of them waits for a mutex that *)
(* another thread of the set holds.                                        *)
(***************************************************************************)
C27_NoLockCycle ==
    \A S \in SUBSET LockThreads :
        S # {} => \E t \in S : ~(Blocked(t) /\ Holder(Head(th[t].todo).arg) \in S)

\* The poll thread waits for a handle's mutex inside the sweep, holding the
\* registry lock, which usb_close waits for; the holder of the handle's
\* mutex is a reader that goes on.
C27_Witness ==
    /\ g_usb_handles_mutex = "scanner"
    /\ Blocked("scanner")
    /\ Holder(Head(th["scanner"].todo).arg) = "r1"
    /\ Blocked("t1")
    /\ th["t1"].fn = "usb_close"
    /\ ~Blocked("r1")

=============================================================================
